---------------------------- MODULE Spec2Model ----------------------------
(***************************************************************************)
(* Cluster-correlation expansion of pycce/cluster_expansion.py.            *)
(*                                                                         *)
(* Two decorators wrap a per-cluster callback `function`:                  *)
(*   cluster_expansion_decorator         (expand_power,  lines 9-102)      *)
(*   cluster_expansion_direct_decorator  (expand_direct, lines 105-192)    *)
(* with the default operators: result_operator = imul,                     *)
(* contribution_operator = ipow, removal_operator = itruediv,              *)
(* addition_operator = np.prod.                                            *)
(*                                                                         *)
(* The qubit states of pycce/center.py (Center.alpha, Center.beta,         *)
(* Center.sigma, Center.generate_states, lines 249-353) are a second       *)
(* state machine over their own variables, SpecOfCenter.                   *)
(*                                                                         *)
(* Contribution values are exact rationals <<numerator, denominator>> in   *)
(* lowest terms with a positive denominator.  An operator applied outside  *)
(* its domain (0 to a negative power, division by 0) raises.  A pair with  *)
(* denominator 0 is never a number: it marks "no value".                   *)
(***************************************************************************)
EXTENDS Integers, Sequences, FiniteSets, TLC

(* ------------------------------ bounds -------------------------------- *)

\* Members of the system are indexed 0 .. NMembers-1.
NMembers == 3

\* Largest number of clusters (rows over all orders) of an enumerated
\* cluster set.
MaxRows == 2

(* --------------------------- exact rationals --------------------------- *)

Abs(x) == IF x < 0 THEN -x ELSE x

RECURSIVE GCD(_, _)
GCD(a, b) == IF b = 0 THEN a ELSE GCD(b, a % b)

Norm(n, d) ==
    LET g == GCD(Abs(n), Abs(d))
        s == IF d < 0 THEN -1 ELSE 1
    IN  <<(s * n) \div g, (s * d) \div g>>

Rat(n) == <<n, 1>>
One  == Rat(1)
Zero == Rat(0)

\* "no value": what a call that raised hands back, and a slot never assigned
NoValue == <<0, 0>>
\* the callback raises at this cluster
RAISES == <<1, 0>>

IsNumber(a) == a[2] # 0

\* operator.imul on numbers
Mul(a, b) == Norm(a[1] * b[1], a[2] * b[2])

\* 1 - x of line 161
Sub(a, b) == Norm(a[1] * b[2] - b[1] * a[2], a[2] * b[2])

Inv(a) == Norm(a[2], a[1])

\* operator.itruediv is defined unless the divisor is 0
DivDefined(a, b) == b[1] # 0
TrueDiv(a, b) == Mul(a, Inv(b))

RECURSIVE PowNat(_, _)
PowNat(a, n) == IF n = 0 THEN One ELSE Mul(a, PowNat(a, n - 1))

\* operator.ipow with an integer exponent: 0 ** 0 = 1, 0 ** negative raises
PowDefined(a, p) == p >= 0 \/ a[1] # 0

\* the sign of the exponent is dropped
IPowUnsigned(a, p) == PowNat(a, Abs(p))

IPow(a, p) == IF p >= 0 THEN PowNat(a, p) ELSE PowNat(Inv(a), -p)

(* ------------------------- numpy on index tables ----------------------- *)

\* sorted(..., reverse=True): descending
RECURSIVE SortedDescending(_)
SortedDescending(s) ==
    IF s = {} THEN <<>>
    ELSE LET m == CHOOSE x \in s : \A y \in s : x >= y
         IN  <<m>> \o SortedDescending(s \ {m})

\* sorted(iterable of integers) as a sequence, ascending
RECURSIVE Sorted(_)
Sorted(s) ==
    IF s = {} THEN <<>>
    ELSE LET m == CHOOSE x \in s : \A y \in s : x <= y
         IN  <<m>> \o Sorted(s \ {m})

\* the [::-1] is dropped
Unreversed(seq) == seq

\* seq[::-1]
Reversed(seq) == [i \in 1..Len(seq) |-> seq[Len(seq) + 1 - i]]

\* seq[:n]
Prefix(seq, n) == SubSeq(seq, 1, n)

\* np.isin(row, v): for each entry of row, whether it occurs in v
Isin(row, v) == [j \in 1..Len(row) |-> \E k \in 1..Len(v) : v[k] = row[j]]

\* np.count_nonzero of a boolean vector
CountNonzero(b) == Cardinality({j \in DOMAIN b : b[j]})

\* the count is compared with the width of the table, not with v.size
containv_width(table, v) ==
    [i \in 1..Len(table) |-> CountNonzero(Isin(table[i], v)) = Len(table[i])]

\* line 76-77: np.count_nonzero(np.isin(table, v), axis=1) == v.size
containv(table, v) ==
    [i \in 1..Len(table) |-> CountNonzero(Isin(table[i], v)) = Len(v)]

\* np.any in place of np.all: a cluster that only overlaps v counts as inside
contained_in_v_any(table, v) ==
    [i \in 1..Len(table) |-> \E j \in 1..Len(table[i]) : Isin(table[i], v)[j]]

\* line 173: np.all(np.isin(table, v), axis=1)
contained_in_v(table, v) ==
    [i \in 1..Len(table) |-> \A j \in 1..Len(table[i]) : Isin(table[i], v)[j]]

\* the mask is dropped: np.sum(pw)
RECURSIVE SumUnmasked(_, _, _)
SumUnmasked(pw, mask, n) ==
    IF n = 0 THEN 0 ELSE SumUnmasked(pw, mask, n - 1) + pw[n]

\* the rows under the mask are counted, their exponents are not summed:
\* np.count_nonzero(mask)
RECURSIVE CountMasked(_, _, _)
CountMasked(pw, mask, n) ==
    IF n = 0 THEN 0
    ELSE CountMasked(pw, mask, n - 1) + (IF mask[n] THEN 1 ELSE 0)

\* np.sum(pw[mask]) of line 81-82
RECURSIVE SumMasked(_, _, _)
SumMasked(pw, mask, n) ==
    IF n = 0 THEN 0
    ELSE SumMasked(pw, mask, n - 1) + (IF mask[n] THEN pw[n] ELSE 0)

\* the mask is dropped: np.prod(tilda, axis=0)
RECURSIVE ProdUnmasked(_, _, _)
ProdUnmasked(tilda, mask, n) ==
    IF n = 0 THEN One ELSE Mul(ProdUnmasked(tilda, mask, n - 1), tilda[n])

\* np.prod(tilda[mask], axis=0) of line 174; the empty product is 1
RECURSIVE ProdMasked(_, _, _)
ProdMasked(tilda, mask, n) ==
    IF n = 0 THEN One
    ELSE Mul(ProdMasked(tilda, mask, n - 1), IF mask[n] THEN tilda[n] ELSE One)

\* np.zeros in place of np.ones
Zeros(n) == [i \in 1..n |-> 0]

\* np.ones(n, dtype=np.int32)
Ones(n) == [i \in 1..n |-> 1]

\* d[k] = x on a dict
DictSet(d, k, x) == [o \in DOMAIN d \cup {k} |-> IF o = k THEN x ELSE d[o]]


(* ------------------------------- inputs -------------------------------- *)

\* A cluster is a row of distinct member indices, stored sorted (line 30).
Members == 0..(NMembers - 1)
AllClusters == {Sorted(s) : s \in (SUBSET Members) \ {{}}}

\* position of a row among the rows of its order: lexicographic
RECURSIVE RowCode(_)
RowCode(r) ==
    IF r = <<>> THEN 0
    ELSE 10 * RowCode(SubSeq(r, 1, Len(r) - 1)) + r[Len(r)]

\* the index table (np.array of rows) holding the clusters cs of one order
TableOf(cs) ==
    LET codes == Sorted({RowCode(c) : c \in cs})
    IN  [i \in 1..Len(codes) |-> CHOOSE c \in cs : RowCode(c) = codes[i]]

\* subclusters: {int order: np.array([[i,j],[i,j]])}; orders need not be
\* contiguous
DictOf(cs) ==
    [k \in {Len(c) : c \in cs} |-> TableOf({c \in cs : Len(c) = k})]

\* what the callback does at a cluster: return a number, or raise
Outcomes == {Zero, Rat(2), RAISES}

\* every cluster set of at most MaxRows clusters over the members, with
\* every callback over it
GenericInputs ==
    UNION {{[S |-> DictOf(cs), F |-> f] : f \in [cs -> Outcomes]} :
           cs \in {x \in SUBSET AllClusters : Cardinality(x) <= MaxRows}}

\* {0,1} over {0},{1} with f = 4, 2, 3
NoDoubleCounting ==
    [S |-> (1 :> <<<<0>>, <<1>>>> @@ 2 :> <<<<0, 1>>>>),
     F |-> (<<0>> :> Rat(2) @@ <<1>> :> Rat(3) @@ <<0, 1>> :> Rat(4))]

\* {0,1,2} over {0,1},{1,2} over {0},{1},{2} with f = 10; 2, 3; 1, 1, 1
ThreeLevelNesting ==
    [S |-> (1 :> <<<<0>>, <<1>>, <<2>>>> @@ 2 :> <<<<0, 1>>, <<1, 2>>>>
            @@ 3 :> <<<<0, 1, 2>>>>),
     F |-> (<<0>> :> One @@ <<1>> :> One @@ <<2>> :> One
            @@ <<0, 1>> :> Rat(2) @@ <<1, 2>> :> Rat(3)
            @@ <<0, 1, 2>> :> Rat(10))]

\* as NoDoubleCounting, with a contribution of 0 inside the pair
ZeroInside ==
    [S |-> (1 :> <<<<0>>, <<1>>>> @@ 2 :> <<<<0, 1>>>>),
     F |-> (<<0>> :> Zero @@ <<1>> :> Rat(3) @@ <<0, 1>> :> Rat(4))]

\* orders whose index table has no rows
EmptyTables ==
    {[S |-> (1 :> <<>>), F |-> <<>>],
     [S |-> (1 :> <<>> @@ 2 :> <<>>), F |-> <<>>],
     [S |-> (1 :> <<>> @@ 2 :> <<<<0, 1>>>>), F |-> (<<0, 1>> :> Rat(3))]}

\* the seven clusters over three members: every pattern of nesting
Clusters3 ==
    {<<0>>, <<1>>, <<2>>, <<0, 1>>, <<0, 2>>, <<1, 2>>, <<0, 1, 2>>}

\* clusters over four members that overlap without nesting: {0,1} meets
\* {1,2,3} and lies outside it, {0,3} lies in no triple
Overlap4 ==
    {<<1>>, <<3>>, <<0, 1>>, <<1, 2>>, <<2, 3>>, <<0, 3>>, <<0, 1, 2>>,
     <<1, 2, 3>>}

\* a callback whose values are distinct primes: two products of powers of
\* its values are equal only if the exponents are
PrimeCallback ==
    (<<0>> :> Rat(2) @@ <<1>> :> Rat(3) @@ <<2>> :> Rat(5) @@ <<3>> :> Rat(19)
     @@ <<0, 1>> :> Rat(7) @@ <<0, 2>> :> Rat(11) @@ <<1, 2>> :> Rat(13)
     @@ <<2, 3>> :> Rat(23) @@ <<0, 3>> :> Rat(29)
     @@ <<0, 1, 2>> :> Rat(17) @@ <<1, 2, 3>> :> Rat(31))

\* a callback with fractions and negative values
FractionCallback ==
    (<<0>> :> <<1, 2>> @@ <<1>> :> <<-3, 1>> @@ <<2>> :> <<2, 3>>
     @@ <<0, 1>> :> <<-1, 1>> @@ <<0, 2>> :> <<5, 2>> @@ <<1, 2>> :> <<-1, 3>>
     @@ <<0, 1, 2>> :> <<7, 1>>)

Restrict(f, cs) == [c \in cs |-> f[c]]

\* every cluster set drawn from the two families (any orders, contiguous or
\* not, any containment)
NestedInputs ==
    {[S |-> DictOf(cs), F |-> Restrict(f, cs)] :
        cs \in SUBSET Clusters3, f \in {PrimeCallback, FractionCallback}}
    \cup
    {[S |-> DictOf(cs), F |-> Restrict(PrimeCallback, cs)] :
        cs \in SUBSET Overlap4}

ExampleInputs == {NoDoubleCounting, ThreeLevelNesting, ZeroInside} \cup EmptyTables

Inputs == GenericInputs \cup NestedInputs \cup ExampleInputs

\* the rows of a cluster set, as a set
RowsOf(S) == UNION {{S[k][i] : i \in 1..Len(S[k])} : k \in DOMAIN S}

(* -------------------------------- state -------------------------------- *)

\* The locals of the two functions are slots: a slot keeps what the call
\* before left in it until the running call assigns it (Python leaves a local
\* unbound until then, and never reads it before).
VARIABLES
    subclusters,   \* the caller's cluster set (first argument of both variants)
    function,      \* the wrapped callback, as a table cluster -> outcome
    variant,       \* which decorated function was called last: "power" / "direct"
    pc,            \* where the call stands
    revorders,     \* local of expand_power (line 40)
    orders,        \* local of expand_direct (line 146)
    ordpos,        \* position of the `for order in ...` loop, from 1
    index,         \* loop variable of `for index in range(...)`, from 0
    visited,       \* local `visited` of either variant
    power,         \* local `power` of expand_power: order -> exponents
    result_tilda,  \* local `result_tilda` of expand_direct: order -> tilde values
    result,        \* local `result` of either variant
    smc,           \* the process-wide memoization hook pycce.sm._smc
    ret,           \* value handed back by the call, NoValue if none
    err,           \* the exception that reached the caller
    calls,         \* clusters the callback was invoked on in this call, in order
    nclear,        \* number of _smc.clear() executed in this call
    nops,          \* number of operator applications executed in this call
    given,         \* the cluster set as it was when the call was made
    last,          \* per variant, the outcome of its last call on this input
    prior          \* the call that had returned when the caller permuted the rows

\* The fields of a Center object (pycce/center.py, Center.__init__ lines
\* 128-139) and what its caller has seen of it.
VARIABLES
    _alpha,        \* self._alpha: the state vector, or None
    _beta,         \* self._beta
    alpha_index,   \* self.alpha_index: the eigenstate index, or None
    beta_index,    \* self.beta_index
    _sigma,        \* self._sigma: the cached Pauli matrices, or None
    eigenvectors,  \* self.eigenvectors, set by generate_states
    got,           \* what the last operation on the object handed back
    assigned       \* per property, the last value other than None assigned to it

center == <<_alpha, _beta, alpha_index, beta_index, _sigma, eigenvectors, got,
            assigned>>

engine == <<subclusters, function, variant, pc, revorders, orders, ordpos,
            index, visited, power, result_tilda, result, smc, ret, err, calls,
            nclear, nops, given, last, prior>>

vars == <<engine, center>>

\* the entries the callback leaves in the hook when it runs: the spin
\* matrices of the members' spin
SmcKeys == {"spin-1/2"}

NoError == [op |-> "", at |-> <<>>]
NoCall  == [kind |-> "none", val |-> NoValue]
NoPrior == [variant |-> "none", ret |-> NoValue, each |-> <<>>]

\* What a field of a Center holds: None, an int, or an ndarray.
None == [kind |-> "none", v |-> <<>>]
Index(i) == [kind |-> "int", v |-> <<i>>]
Array(x) == [kind |-> "array", v |-> x]

\* the Pauli matrices built from the vectors a and b; no matrices
Pauli(a, b) == [alpha |-> a, beta |-> b]
NoSigma == Pauli(<<>>, <<>>)

\* nothing handed back yet
NoResult ==
    [op |-> "none", name |-> "", val |-> None, sigma |-> NoSigma,
     raised |-> FALSE]

\* Center.__init__ with alpha = None, beta = None (lines 128-139)
InitCenter ==
    /\ _alpha = None /\ _beta = None
    /\ alpha_index = None /\ beta_index = None
    /\ _sigma = NoSigma
    /\ eigenvectors = <<>>
    /\ got = NoResult
    /\ assigned = [name \in {"alpha", "beta"} |-> None]

\* the engine before its first call on one of the inputs
InitEngine(inputs) ==
    /\ \E inp \in inputs : subclusters = inp.S /\ function = inp.F
    /\ variant = "none"
    /\ pc = "idle"
    /\ revorders = <<>> /\ orders = <<>>
    /\ ordpos = 0 /\ index = 0 /\ visited = 0
    /\ power = <<>> /\ result_tilda = <<>>
    /\ result = NoValue
    /\ smc = {}
    /\ ret = NoValue /\ err = NoError
    /\ calls = <<>> /\ nclear = 0 /\ nops = 0
    /\ given = subclusters
    /\ last = [v \in {"power", "direct"} |-> NoCall]
    /\ prior = NoPrior

Init == InitEngine(Inputs) /\ InitCenter

\* no call is running
Idle == pc \in {"idle", "returned", "raised"}

(* ------------------------- outcomes of a call -------------------------- *)

\* `return val`: the value reaches the caller
Returned(val) ==
    /\ pc' = "returned"
    /\ ret' = val
    /\ err' = err
    /\ last' = [last EXCEPT ![variant] = [kind |-> "value", val |-> val]]

\* the exception is caught and the loop goes on
Swallowed(op, v) ==
    /\ pc' = pc
    /\ UNCHANGED <<ret, err, last>>

\* an exception raised by `op` while cluster v is processed: nothing in
\* either function catches it, so it leaves the call at once
Raised(op, v) ==
    /\ pc' = "raised"
    /\ ret' = NoValue
    /\ err' = [op |-> op, at |-> v]
    /\ last' = [last EXCEPT ![variant] = [kind |-> "error", val |-> NoValue]]

\* the call goes on
Running(next) ==
    /\ pc' = next
    /\ UNCHANGED <<ret, err, last>>

\* the engine assigns nothing to its first argument
Untouched == UNCHANGED <<subclusters, function, given>>

\* _smc.clear() (pycce/sm.py): the hook holds nothing afterwards
SmcClear(hook) == {}

\* the callback looks its spin matrices up in the hook, which memoizes them
SmcPut(hook) == hook \cup SmcKeys

(* --------------------------- the caller -------------------------------- *)

\* the inputs after which the caller may go on with another cluster set
PriorInputs == ExampleInputs

\* the caller turns to another cluster set and callback; the hook and the
\* locals of the last call stay as they are
NewClusterSet ==
    /\ Idle
    /\ [S |-> subclusters, F |-> function] \in PriorInputs
    /\ \E inp \in Inputs :
        /\ inp.S # subclusters \/ inp.F # function
        /\ subclusters' = inp.S
        /\ function' = inp.F
        /\ given' = inp.S
    /\ pc' = "idle"
    /\ variant' = "none"
    /\ ret' = NoValue /\ err' = NoError
    /\ calls' = <<>> /\ nclear' = 0 /\ nops' = 0
    /\ last' = [v \in {"power", "direct"} |-> NoCall]
    /\ prior' = NoPrior
    /\ UNCHANGED <<revorders, orders, ordpos, index, visited, power,
                   result_tilda, result, smc, center>>

\* every ordering of the rows of an index table
RowOrders(table) ==
    {q \in [1..Len(table) -> {table[i] : i \in 1..Len(table)}] :
        \A i \in 1..Len(table) : \A j \in 1..Len(table) :
            q[i] = q[j] => i = j}

\* the row of the table of its order at which the cluster c stands
RowOf(c) ==
    CHOOSE j \in 1..Len(subclusters[Len(c)]) : subclusters[Len(c)][j] = c

\* what the call that has returned assigned to each cluster: its exponent
\* (expand_power) or its tilde value (expand_direct)
Assigned ==
    [c \in RowsOf(subclusters) |->
        IF variant = "power" THEN Rat(power[Len(c)][RowOf(c)])
        ELSE result_tilda[Len(c)][RowOf(c)]]

\* after a call has returned from the general path, the caller reorders the
\* rows of the index table of one order, keeping the set of clusters and the
\* callback
PermuteRows ==
    /\ pc = "returned"
    /\ prior = NoPrior
    /\ \E k \in DOMAIN subclusters :
          /\ Len(subclusters[k]) >= 2
          /\ \E q \in RowOrders(subclusters[k]) :
                /\ q # subclusters[k]
                /\ subclusters' = [subclusters EXCEPT ![k] = q]
    /\ given' = subclusters'
    /\ prior' = [variant |-> variant, ret |-> ret, each |-> Assigned]
    /\ pc' = "idle"
    /\ variant' = "none"
    /\ ret' = NoValue /\ err' = NoError
    /\ calls' = <<>> /\ nclear' = 0 /\ nops' = 0
    /\ last' = [v \in {"power", "direct"} |-> NoCall]
    /\ UNCHANGED <<function, revorders, orders, ordpos, index, visited, power,
                   result_tilda, result, smc, center>>

(* ------------------ expand_power: lines 25-95 -------------------------- *)

\* the running aggregate of the call before is carried over
SeedPowerCarriedOver == IF IsNumber(result) THEN result ELSE IPow(One, 0)

\* lines 50-51: result = 1; result = contribution_operator(result, 0)
SeedPower == IPow(One, 0)

\* the fast path is never taken
FastPathNever(S, ords) == FALSE

\* line 45: norders == 1 and subclusters[revorders[0]].shape[0] == 1
FastPath(S, ords) == Len(ords) = 1 /\ Len(S[ords[1]]) = 1

\* lines 40-45 and, off the fast path, lines 50-55
CallPower ==
    /\ Idle
    /\ variant' = "power"
    /\ given' = subclusters
    /\ revorders' = Reversed(Sorted(DOMAIN subclusters))
    /\ orders' = <<>> /\ result_tilda' = <<>>
    /\ ret' = NoValue /\ err' = NoError
    /\ calls' = <<>> /\ nclear' = 0
    /\ IF FastPath(subclusters, revorders')
       THEN /\ pc' = "p_fast"
            /\ nops' = 0
            /\ UNCHANGED <<result, power, visited, ordpos>>
       ELSE /\ pc' = "p_for_order"
            /\ result' = SeedPower
            /\ nops' = 1
            /\ power' = <<>>
            /\ visited' = 0
            /\ ordpos' = 1
    /\ UNCHANGED <<subclusters, function, index, smc, last, prior, center>>

\* lines 46-48: verticles = subclusters[revorders[0]][0];
\* return function(verticles, allspin, ...)
PowerFastPath ==
    /\ pc = "p_fast"
    /\ LET verticles == subclusters[revorders[1]][1] IN
        /\ calls' = Append(calls, verticles)
        /\ smc' = SmcPut(smc)
        /\ IF function[verticles] = RAISES
           THEN Raised("function", verticles)
           ELSE Returned(function[verticles])
    /\ Untouched
    /\ UNCHANGED <<variant, revorders, orders, ordpos, index, visited, power,
                   result_tilda, result, nclear, nops, prior, center>>

\* lines 56-57 and the exit of the loop over orders
PowerForOrder ==
    /\ pc = "p_for_order"
    /\ IF ordpos <= Len(revorders)
       THEN LET order == revorders[ordpos] IN
            /\ power' = DictSet(power, order, Ones(Len(subclusters[order])))
            /\ index' = 0
            /\ Running("p_for_index")
       ELSE /\ Running("p_clear")
            /\ UNCHANGED <<power, index>>
    /\ Untouched
    /\ UNCHANGED <<variant, revorders, orders, ordpos, visited, result_tilda,
                   result, smc, calls, nclear, nops, prior, center>>

\* only the order just above is looked at, not every higher order
ExponentNextOrderOnly(start, v, k) ==
    IF k = 0 THEN start
    ELSE LET table == subclusters[revorders[k]]
         IN  start - SumMasked(power[revorders[k]], containv(table, v), Len(table))

\* the rows of v's own order walked before v are counted against it
RECURSIVE ExponentAfterSiblings(_, _, _)
ExponentAfterSiblings(start, v, k) ==
    IF k = 0 THEN start - index
    ELSE LET higherorder == revorders[k]
             table == subclusters[higherorder]
         IN  ExponentAfterSiblings(start, v, k - 1)
               - SumMasked(power[higherorder], containv(table, v), Len(table))

\* lines 64-82: the exponent of v, from 1, less the exponents of the clusters
\* of the k first (higher) orders of revorders that contain v
RECURSIVE Exponent(_, _, _)
Exponent(start, v, k) ==
    IF k = 0 THEN start
    ELSE LET higherorder == revorders[k]
             table == subclusters[higherorder]
         IN  Exponent(start, v, k - 1)
               - SumMasked(power[higherorder], containv(table, v), Len(table))

\* lines 60-88: one turn of the loop over the clusters of the order
PowerClusterStep ==
    /\ pc = "p_for_index"
    /\ index < Len(subclusters[revorders[ordpos]])
    /\ LET order == revorders[ordpos]
            v == subclusters[order][index + 1]
            p == Exponent(power[order][index + 1], v, visited)
            vcalc == function[v]
        IN
        /\ power' = [power EXCEPT ![order][index + 1] = p]
        /\ calls' = Append(calls, v)
        /\ smc' = SmcPut(smc)
        /\ IF vcalc = RAISES
           THEN /\ Raised("function", v)
                /\ UNCHANGED <<result, nops, index>>
           ELSE IF ~PowDefined(vcalc, p)
           THEN /\ Raised("contribution_operator", v)
                /\ nops' = nops + 1
                /\ UNCHANGED <<result, index>>
           ELSE /\ result' = Mul(result, IPow(vcalc, p))
                /\ nops' = nops + 2
                /\ index' = index + 1
                /\ Running("p_for_index")
    /\ UNCHANGED <<variant, revorders, orders, ordpos, visited, result_tilda,
                   nclear, prior, center>>

\* the table of the order is reversed in place while it is walked
PowerClusterReversing ==
    /\ PowerClusterStep
    /\ subclusters' = [subclusters EXCEPT ![revorders[ordpos]] = Reversed(@)]
    /\ UNCHANGED <<function, given>>

PowerCluster == PowerClusterStep /\ Untouched

\* the loop over the clusters of an order is left after its first cluster
PowerEndOrderEarly ==
    /\ pc = "p_for_index"
    /\ index >= 1
    /\ visited' = visited + 1
    /\ ordpos' = ordpos + 1
    /\ Running("p_for_order")
    /\ Untouched
    /\ UNCHANGED <<variant, revorders, orders, index, power, result_tilda,
                   result, smc, calls, nclear, nops, prior, center>>

\* line 90: visited += 1, at the end of the loop over the clusters
PowerEndOrder ==
    /\ pc = "p_for_index"
    /\ index = Len(subclusters[revorders[ordpos]])
    /\ visited' = visited + 1
    /\ ordpos' = ordpos + 1
    /\ Running("p_for_order")
    /\ Untouched
    /\ UNCHANGED <<variant, revorders, orders, index, power, result_tilda,
                   result, smc, calls, nclear, nops, prior, center>>

\* the general path returns without clearing the hook
PowerReturnWithoutClear ==
    /\ pc = "p_clear"
    /\ Returned(result)
    /\ Untouched
    /\ UNCHANGED <<variant, revorders, orders, ordpos, index, visited, power,
                   result_tilda, result, smc, calls, nclear, nops, prior,
                   center>>

\* lines 93-95: _smc.clear(); return result
PowerClear ==
    /\ pc = "p_clear"
    /\ smc' = SmcClear(smc)
    /\ nclear' = nclear + 1
    /\ Returned(result)
    /\ Untouched
    /\ UNCHANGED <<variant, revorders, orders, ordpos, index, visited, power,
                   result_tilda, result, calls, nops, prior, center>>

(* ------------------ expand_direct: lines 130-185 ----------------------- *)

\* the "1 -" is dropped: result = result_operator(1, 0)
SeedDirectZero == Mul(One, Zero)

\* line 161: result = 1 - result_operator(1, 0)
SeedDirect == Sub(One, Mul(One, Zero))

\* lines 146-152 and, off the fast path, lines 159-161
CallDirect ==
    /\ Idle
    /\ variant' = "direct"
    /\ given' = subclusters
    /\ orders' = Sorted(DOMAIN subclusters)
    /\ revorders' = <<>> /\ power' = <<>>
    /\ ret' = NoValue /\ err' = NoError
    /\ calls' = <<>> /\ nclear' = 0
    /\ IF FastPath(subclusters, orders')
       THEN /\ pc' = "d_fast"
            /\ nops' = 0
            /\ UNCHANGED <<result, result_tilda, visited, ordpos>>
       ELSE /\ pc' = "d_for_order"
            /\ result_tilda' = <<>>
            /\ visited' = 0
            /\ result' = SeedDirect
            /\ nops' = 1
            /\ ordpos' = 1
    /\ UNCHANGED <<subclusters, function, index, smc, last, prior, center>>

\* lines 153-155: verticles = subclusters[orders[0]][0];
\* return function(allnspin[verticles], ...)
DirectFastPath ==
    /\ pc = "d_fast"
    /\ LET verticles == subclusters[orders[1]][1] IN
        /\ calls' = Append(calls, verticles)
        /\ smc' = SmcPut(smc)
        /\ IF function[verticles] = RAISES
           THEN Raised("function", verticles)
           ELSE Returned(function[verticles])
    /\ Untouched
    /\ UNCHANGED <<variant, revorders, orders, ordpos, index, visited, power,
                   result_tilda, result, nclear, nops, prior, center>>

\* lines 163-164 and the exit of the loop over orders
DirectForOrder ==
    /\ pc = "d_for_order"
    /\ IF ordpos <= Len(orders)
       THEN /\ result_tilda' = DictSet(result_tilda, orders[ordpos], <<>>)
            /\ index' = 0
            /\ Running("d_for_index")
       ELSE /\ Running("d_return")
            /\ UNCHANGED <<result_tilda, index>>
    /\ Untouched
    /\ UNCHANGED <<variant, revorders, orders, ordpos, visited, power, result,
                   smc, calls, nclear, nops, prior, center>>

\* lines 173-174: the aggregate of the tilde values of the clusters of
\* lowerorder contained in v
LowerVcalc(lowerorder, v) ==
    LET table == subclusters[lowerorder]
    IN  ProdMasked(result_tilda[lowerorder], contained_in_v(table, v), Len(table))

\* lines 172-175: vcalc with the aggregates of the k first (lower) orders
\* removed one after the other; NoValue once a removal is undefined
RECURSIVE RemoveLower(_, _, _)
RemoveLower(vcalc, v, k) ==
    IF k = 0 THEN vcalc
    ELSE LET sofar == RemoveLower(vcalc, v, k - 1)
             lower_vcalc == LowerVcalc(orders[k], v)
         IN  IF IsNumber(sofar) /\ DivDefined(sofar, lower_vcalc)
             THEN TrueDiv(sofar, lower_vcalc)
             ELSE NoValue

\* the number of lower orders line 172 reaches: all of them, or up to the
\* one whose removal raises
Reached(vcalc, v, k) ==
    Cardinality({j \in 1..k : j = 1 \/ IsNumber(RemoveLower(vcalc, v, j - 1))})

\* lines 167-179: one turn of the loop over the clusters of the order
DirectClusterStep ==
    /\ pc = "d_for_index"
    /\ index < Len(subclusters[orders[ordpos]])
    /\ LET order == orders[ordpos]
            v == subclusters[order][index + 1]
            raw == function[v]
            vcalc == RemoveLower(raw, v, visited)
        IN
        /\ calls' = Append(calls, v)
        /\ smc' = SmcPut(smc)
        /\ IF raw = RAISES
           THEN /\ Raised("function", v)
                /\ UNCHANGED <<result, result_tilda, nops, index>>
           ELSE IF ~IsNumber(vcalc)
           THEN /\ Raised("removal_operator", v)
                /\ nops' = nops + 2 * Reached(raw, v, visited)
                /\ UNCHANGED <<result, result_tilda, index>>
           ELSE /\ result' = Mul(result, vcalc)
                /\ result_tilda' =
                       [result_tilda EXCEPT ![order] = Append(@, vcalc)]
                /\ nops' = nops + 2 * visited + 1
                /\ index' = index + 1
                /\ Running("d_for_index")
    /\ UNCHANGED <<variant, revorders, orders, ordpos, visited, power, nclear,
                   prior, center>>

DirectCluster == DirectClusterStep /\ Untouched

\* lines 181-183: result_tilda[order] = np.array(...); visited += 1
DirectEndOrder ==
    /\ pc = "d_for_index"
    /\ index = Len(subclusters[orders[ordpos]])
    /\ visited' = visited + 1
    /\ ordpos' = ordpos + 1
    /\ Running("d_for_order")
    /\ Untouched
    /\ UNCHANGED <<variant, revorders, orders, index, power, result_tilda,
                   result, smc, calls, nclear, nops, prior, center>>

\* the hook is cleared before the return, as in expand_power
DirectReturnClearing ==
    /\ pc = "d_return"
    /\ smc' = SmcClear(smc)
    /\ nclear' = nclear + 1
    /\ Returned(result)
    /\ Untouched
    /\ UNCHANGED <<variant, revorders, orders, ordpos, index, visited, power,
                   result_tilda, result, calls, nops, prior, center>>

\* line 185: return result
DirectReturn ==
    /\ pc = "d_return"
    /\ Returned(result)
    /\ Untouched
    /\ UNCHANGED <<variant, revorders, orders, ordpos, index, visited, power,
                   result_tilda, result, smc, calls, nclear, nops, prior, center>>

(* ------------------ Center: center.py lines 249-353 -------------------- *)

\* Center.dim of a spin-1/2: the size of its state vectors (lines 280, 314)
Dim == 2

\* what a caller assigns to alpha or beta: None, an eigenstate index (an int
\* or an array of size 1), a state vector, a vector of the wrong size
StateArrays == {<<1>>, <<1, 0>>, <<0, 1>>, <<2, 0>>, <<1, 1>>, <<1, 0, 0>>}
States == {None, Index(0), Index(1)} \cup {Array(x) : x \in StateArrays}

\* state.size after np.asarray(state), and int(state)
Size(state) == Len(state.v)
IntOf(state) == state.v[1]

\* pycce.utilities.normalize: the vector scaled to unit length, written as
\* the shortest integer vector of its direction
normalize(x) ==
    LET g == GCD(Abs(x[1]), Abs(x[2]))
    IN  [i \in 1..Len(x) |-> x[i] \div g]

\* np.inner(a.conj(), b) on real vectors
Inner(a, b) == a[1] * b[1] + a[2] * b[2]

\* the eigenvector matrices np.linalg.eigh may hand back, as their columns
Eigenbases == {<<<<1, 0>>, <<0, 1>>>>, <<<<0, 1>>, <<1, 0>>>>,
               <<<<1, 1>>, <<1, -1>>>>}

\* self.eigenvectors[:, i]
Column(ev, i) == ev[i + 1]

\* getattr(self, '_' + name) and getattr(self, name + '_index')
StateOf(name) == IF name = "alpha" THEN _alpha ELSE _beta
IndexOf(name) == IF name = "alpha" THEN alpha_index ELSE beta_index

\* lines 323-333: the vector if there is one, else the index, else None
_get_state(name) ==
    IF StateOf(name) # None THEN StateOf(name)
    ELSE IF IndexOf(name) # None THEN IndexOf(name)
    ELSE None

\* lines 309-320: the fields '_' + name and name + '_index' after state is
\* assigned, given what they held
SetVector(state, old) ==
    IF state = None THEN None
    ELSE IF Size(state) = 1 THEN old
    ELSE Array(normalize(state.v))
SetIndex(state, old) ==
    IF state = None THEN old
    ELSE IF Size(state) = 1 THEN Index(IntOf(state))
    ELSE None

\* line 314: assert state.size == np.prod(self.dim)
SizeAsserted(state) == state = None \/ Size(state) = 1 \/ Size(state) = Dim

\* alpha.setter / beta.setter (lines 259-261, 272-274) and _set_state
\* (lines 308-321)
SetState ==
    \E name \in {"alpha", "beta"} : \E state \in States :
        /\ IF SizeAsserted(state)
           THEN /\ _alpha' = IF name = "alpha" THEN SetVector(state, _alpha) ELSE _alpha
                /\ _beta' = IF name = "beta" THEN SetVector(state, _beta) ELSE _beta
                /\ alpha_index' =
                       IF name = "alpha" THEN SetIndex(state, alpha_index) ELSE alpha_index
                /\ beta_index' =
                       IF name = "beta" THEN SetIndex(state, beta_index) ELSE beta_index
                /\ _sigma' = NoSigma
                /\ assigned' =
                       IF state = None THEN assigned
                       ELSE [assigned EXCEPT ![name] =
                                IF Size(state) = 1 THEN Index(IntOf(state))
                                ELSE Array(normalize(state.v))]
                /\ got' = [NoResult EXCEPT !.op = "set", !.name = name]
           ELSE /\ got' = [NoResult EXCEPT !.op = "set", !.name = name,
                                           !.raised = TRUE]
                /\ UNCHANGED <<_alpha, _beta, alpha_index, beta_index, _sigma,
                               assigned>>
        /\ UNCHANGED <<eigenvectors, engine>>

\* the property alpha / beta (lines 249-257, 263-270): _get_state
GetState ==
    \E name \in {"alpha", "beta"} :
        /\ got' = [NoResult EXCEPT !.op = "get", !.name = name,
                                   !.val = _get_state(name)]
        /\ UNCHANGED <<_alpha, _beta, alpha_index, beta_index, _sigma,
                       eigenvectors, assigned, engine>>

\* lines 286-288: self.alpha.conj() needs an ndarray (None and int have no
\* conj), and the assertion needs orthogonal states
SigmaDefined ==
    /\ _get_state("alpha").kind = "array"
    /\ _get_state("beta").kind = "array"
    /\ Inner(_get_state("alpha").v, _get_state("beta").v) = 0

\* lines 290-297: the matrices built from self.alpha and self.beta
generate_sigma == Pauli(_get_state("alpha").v, _get_state("beta").v)

\* Center.generate_sigma() called by the user (lines 282-297)
GenerateSigma ==
    /\ IF SigmaDefined
       THEN /\ _sigma' = generate_sigma
            /\ got' = [NoResult EXCEPT !.op = "generate_sigma"]
       ELSE /\ got' = [NoResult EXCEPT !.op = "generate_sigma", !.raised = TRUE]
            /\ UNCHANGED _sigma
    /\ UNCHANGED <<_alpha, _beta, alpha_index, beta_index, eigenvectors,
                   assigned, engine>>

\* the property sigma (lines 299-306)
Sigma ==
    /\ IF _sigma # NoSigma
       THEN /\ got' = [NoResult EXCEPT !.op = "sigma", !.sigma = _sigma]
            /\ UNCHANGED _sigma
       ELSE IF SigmaDefined
       THEN /\ _sigma' = generate_sigma
            /\ got' = [NoResult EXCEPT !.op = "sigma", !.sigma = generate_sigma]
       ELSE /\ got' = [NoResult EXCEPT !.op = "sigma", !.raised = TRUE]
            /\ UNCHANGED _sigma
    /\ UNCHANGED <<_alpha, _beta, alpha_index, beta_index, eigenvectors,
                   assigned, engine>>

\* Center.generate_states (lines 335-353): whatever the Hamiltonian, eigh
\* hands back one of the bases; _sigma is not assigned
GenerateStates ==
    \E ev \in Eigenbases :
        /\ eigenvectors' = ev
        /\ _alpha' = IF alpha_index # None
                     THEN Array(Column(ev, IntOf(alpha_index))) ELSE _alpha
        /\ _beta' = IF beta_index # None
                    THEN Array(Column(ev, IntOf(beta_index))) ELSE _beta
        /\ assigned' = [name \in {"alpha", "beta"} |-> None]
        /\ got' = [NoResult EXCEPT !.op = "generate_states"]
        /\ UNCHANGED <<alpha_index, beta_index, _sigma, engine>>

(* --------------------------- specification ----------------------------- *)

Next ==
    \/ NewClusterSet
    \/ CallPower
    \/ PowerFastPath
    \/ PowerForOrder
    \/ PowerCluster
    \/ PowerEndOrder
    \/ PowerClear
    \/ CallDirect
    \/ DirectFastPath
    \/ DirectForOrder
    \/ DirectCluster
    \/ DirectEndOrder
    \/ DirectReturn

Spec == Init /\ [][Next]_vars

\* the engine under a caller that also reorders the rows of its cluster sets
NextPermuting ==
    \/ Next
    \/ PermuteRows

SpecPermuting == Init /\ [][NextPermuting]_vars

\* a Center object under a caller that assigns and reads its properties and
\* calls its methods in any order
InitOfCenter == InitEngine({NoDoubleCounting}) /\ InitCenter

NextOfCenter ==
    \/ SetState
    \/ GetState
    \/ GenerateSigma
    \/ Sigma
    \/ GenerateStates

SpecOfCenter == InitOfCenter /\ [][NextOfCenter]_vars

(* ------------------------------ claims --------------------------------- *)

\* the input the engine is working on
Cur == [S |-> subclusters, F |-> function]
Rows == RowsOf(subclusters)

\* the set of members of a row
Indices(r) == {r[i] : i \in 1..Len(r)}

\* a call has been made and has ended
Ended == variant # "none" /\ pc \in {"returned", "raised"}

\* both variants have ended on the current input
BothEnded == last["power"].kind # "none" /\ last["direct"].kind # "none"

NoZeroContribution == \A c \in Rows : function[c] # Zero
NeverRaises == \A c \in Rows : function[c] # RAISES

\* the exponents held by the table `power`
Exponents == UNION {{power[o][i] : i \in 1..Len(power[o])} : o \in DOMAIN power}

Inside(a, b) == Indices(a) \subseteq Indices(b)

\* T is a cluster of the set that contains every cluster of the set
IsTop(T) == T \in Rows /\ \A c \in Rows : Inside(c, T)
HasTop == Cardinality(Rows) >= 2 /\ \E T \in Rows : IsTop(T)
Top == CHOOSE T \in Rows : IsTop(T)

\* the exponent expand_power has given to the cluster c
ExponentOf(c) ==
    LET i == CHOOSE j \in 1..Len(subclusters[Len(c)]) : subclusters[Len(c)][j] = c
    IN  power[Len(c)][i]

\* expand_power has returned from the general path
PowerReturned == variant = "power" /\ pc = "returned" /\ nclear = 1

TopExponents ==
    \A c \in Rows : ExponentOf(c) = (IF c = Top THEN 1 ELSE 0)

SingleCluster ==
    /\ Cardinality(DOMAIN subclusters) = 1
    /\ \A k \in DOMAIN subclusters : Len(subclusters[k]) = 1

TheCluster == CHOOSE c \in Rows : TRUE

\* C3: on a cluster set of one order holding one cluster c, either variant
\* invokes the callback exactly once, on c, applies no operator, and returns
\* exactly the callback's value (or ends with the callback's exception).
C3_SingleClusterIdentity ==
    (SingleCluster /\ Ended) =>
        /\ calls = <<TheCluster>>
        /\ nops = 0
        /\ IF function[TheCluster] = RAISES
           THEN pc = "raised"
           ELSE pc = "returned" /\ ret = function[TheCluster]

\* both variants have returned the callback's value 2 on a single cluster
C3_Witness ==
    /\ SingleCluster /\ pc = "returned" /\ variant = "direct"
    /\ ret = Rat(2) /\ calls = <<TheCluster>>
    /\ last["power"] = [kind |-> "value", val |-> Rat(2)]

\* C4: after every expand_power call that returns a value the memoization
\* hook is empty, the fast path included.
C4_HookEmptyAfterPower ==
    (variant = "power" /\ pc = "returned") => smc = {}

\* C5: the hook is cleared exactly once in every expand_power invocation,
\* whether it returns or raises, and is empty when the caller gets control.
C5_HookClearedOnceWhateverOutcome ==
    (variant = "power" /\ Ended) => (nclear = 1 /\ smc = {})

\* no cluster of the set lies inside a cluster of a higher order
NoContainment ==
    \A a \in Rows : \A b \in Rows : Len(a) < Len(b) => ~Inside(a, b)

\* the combine of the raw contributions of the clusters cs
RECURSIVE CombineAll(_)
CombineAll(cs) ==
    IF cs = {} THEN One
    ELSE LET c == CHOOSE x \in cs : TRUE
         IN  Mul(function[c], CombineAll(cs \ {c}))

\* C6: when no cluster lies inside a cluster of a higher order, expand_power
\* leaves every exponent it computes at 1 (the fast path computes none) and
\* returns the combine of all raw contributions.
C6_DisjointComposition ==
    (variant = "power" /\ NoContainment) =>
        /\ ~SingleCluster => Exponents \subseteq {1}
        /\ pc = "returned" => ret = CombineAll(Rows)

\* two disjoint singletons with contributions 2 and 3: the aggregate is 6
C6_Witness ==
    /\ PowerReturned
    /\ subclusters = (1 :> <<<<0>>, <<1>>>>)
    /\ function[<<0>>] = Rat(2) /\ function[<<1>>] = Rat(3)
    /\ power = (1 :> <<1, 1>>)
    /\ ret = Rat(6)

\* C7: an expand_power call ends as the expand_power call before it on the
\* same cluster set and callback did, with the same value, whatever was
\* called in between and whatever cluster set was processed before.
C7_SameResultAgain ==
    [][(variant' = "power" /\ ~Idle /\ pc' \in {"returned", "raised"}
            /\ last["power"].kind # "none")
        => last'["power"] = last["power"]]_vars

\* a second expand_power call is about to return the value of the first,
\* after an expand_direct call on the same input
C7_Witness ==
    /\ variant = "power" /\ pc = "p_clear"
    /\ last["power"].kind = "value" /\ last["direct"].kind = "value"
    /\ result = last["power"].val
    /\ result # One /\ result # Zero

\* the rows of the tables of the orders ords, one order after the other
RECURSIVE Walk(_, _)
Walk(S, ords) ==
    IF ords = <<>> THEN <<>> ELSE S[Head(ords)] \o Walk(S, Tail(ords))

\* the clusters in the order the running variant processes them
ProcessingOrder ==
    IF variant = "power" THEN Walk(subclusters, Reversed(Sorted(DOMAIN subclusters)))
    ELSE Walk(subclusters, Sorted(DOMAIN subclusters))

\* C8: when the callback or an operator fails at a cluster, the call ends
\* with that error: the failing cluster is the last one the callback was
\* invoked on, it was invoked once, no value is handed back; a call that
\* returns has met no error.
C8_ErrorPropagation ==
    /\ calls = Prefix(ProcessingOrder, Len(calls))
    /\ \A i \in 1..Len(calls) :
          function[calls[i]] = RAISES =>
              /\ pc = "raised"
              /\ i = Len(calls)
              /\ err = [op |-> "function", at |-> calls[i]]
    /\ pc = "raised" =>
          /\ ret = NoValue
          /\ last[variant].kind = "error"
          /\ calls # <<>> /\ err.at = calls[Len(calls)]
          /\ err.op = "function" <=> function[err.at] = RAISES
    /\ pc = "returned" => (err = NoError /\ IsNumber(ret))

\* the callback raised at a cluster that is not the last of the walk, and
\* an operator raised in another call
C8_Witness ==
    /\ pc = "raised" /\ variant = "power"
    /\ err.op = "function"
    /\ Len(calls) < Len(ProcessingOrder)
    /\ last["direct"].kind = "error"

\* C9: the count test of expand_power and the all-entries test of
\* expand_direct both decide inclusion of index sets, row by row: for every
\* table of the cluster set and every cluster v, entry i of containv says
\* whether v lies inside row i, and entry i of contained_in_v whether row i
\* lies inside v.
C9_ContainmentChecker ==
    \A k \in DOMAIN subclusters : \A v \in Rows :
        LET table == subclusters[k] IN
        /\ DOMAIN containv(table, v) = 1..Len(table)
        /\ DOMAIN contained_in_v(table, v) = 1..Len(table)
        /\ \A i \in 1..Len(table) :
              /\ containv(table, v)[i] <=> Inside(v, table[i])
              /\ contained_in_v(table, v)[i] <=> Inside(table[i], v)

\* expand_power has found a cluster inside one higher cluster and outside
\* another: an exponent has gone to 0 while a lower one stayed at 1
C9_Witness ==
    /\ variant = "power" /\ pc = "p_clear"
    /\ \E v \in Rows : \E u \in Rows : \E w \in Rows :
          /\ Len(v) < Len(u) /\ Len(v) < Len(w)
          /\ Inside(v, u) /\ ~Inside(v, w)
          /\ ExponentOf(v) = 0

\* C10: the cluster set is the one the caller handed over, during the call
\* and after it, on return and on error.
C10_ClusterSetNotMutated ==
    variant # "none" => subclusters = given

\* expand_direct has raised after walking more than one cluster
C10_Witness ==
    /\ variant = "direct" /\ pc = "raised"
    /\ Len(calls) >= 2
    /\ subclusters = given

\* the clusters the callback has been invoked on, and those among them whose
\* value has been folded into the running aggregate
Walked == {calls[i] : i \in 1..Len(calls)}
Folded == IF pc = "raised" THEN Walked \ {calls[Len(calls)]} ELSE Walked

\* the clusters of strictly higher order that contain c, and those of
\* strictly lower order that lie inside c
Above(c) == {u \in Rows : Len(u) > Len(c) /\ Inside(c, u)}
Below(c) == {u \in Rows : Len(u) < Len(c) /\ Inside(u, c)}

\* the exponent rule: 1 less the exponents, by the same rule, of the
\* clusters above c
RECURSIVE RuleExponent(_)
RECURSIVE RuleExponentSum(_)
RuleExponent(c) == 1 - RuleExponentSum(Above(c))
RuleExponentSum(us) ==
    IF us = {} THEN 0
    ELSE LET u == CHOOSE x \in us : TRUE
         IN  RuleExponent(u) + RuleExponentSum(us \ {u})

\* the sum of the exponents expand_power holds for the clusters us
RECURSIVE HeldExponentSum(_)
HeldExponentSum(us) ==
    IF us = {} THEN 0
    ELSE LET u == CHOOSE x \in us : TRUE
         IN  ExponentOf(u) + HeldExponentSum(us \ {u})

\* expand_power or expand_direct is on, or has left, its general path
PowerGeneral == variant = "power" /\ ~SingleCluster
DirectGeneral == variant = "direct" /\ ~SingleCluster

\* C11: on the general path of expand_power, from the moment a cluster v is
\* processed its exponent is 1 minus the sum of the exponents of the clusters
\* of strictly higher order (contiguous or not) that contain v, which are
\* final; clusters of the same or of lower orders do not enter, and a cluster
\* not processed yet holds the initial 1.
C11_ExponentRule ==
    PowerGeneral =>
        /\ \A c \in Walked :
              /\ ExponentOf(c) = 1 - HeldExponentSum(Above(c))
              /\ ExponentOf(c) = RuleExponent(c)
        /\ \A c \in Rows \ Walked :
              Len(c) \in DOMAIN power => ExponentOf(c) = 1

\* expand_power has returned with a negative exponent for a cluster that
\* lies inside clusters of exponent 0 and of exponent 1
C11_Witness ==
    /\ PowerReturned
    /\ \E c \in Rows :
          /\ ExponentOf(c) < 0
          /\ \E u \in Above(c) : ExponentOf(u) = 0
          /\ \E u \in Above(c) : ExponentOf(u) = 1 /\ Len(u) > Len(c) + 1

\* raise: a to the integer power p, by repeated combine and its inverse
RECURSIVE RaiseTo(_, _)
RaiseTo(a, p) ==
    IF p = 0 THEN One
    ELSE IF p > 0 THEN Mul(a, RaiseTo(a, p - 1))
    ELSE TrueDiv(RaiseTo(a, p + 1), a)

\* the combine of the contributions of the clusters cs, each raised to the
\* exponent the rule gives it
RECURSIVE CombineRaised(_)
CombineRaised(cs) ==
    IF cs = {} THEN One
    ELSE LET c == CHOOSE x \in cs : TRUE
         IN  Mul(RaiseTo(function[c], RuleExponent(c)), CombineRaised(cs \ {c}))

\* C12: on the general path of expand_power the running aggregate is the
\* identity combined with raise(contribution(v), exponent(v)) for every
\* cluster v folded so far, one raise and one combine per cluster, whatever
\* the exponent (0 and negative included); the value returned is that
\* aggregate over every cluster of every order.
C12_PowerAggregate ==
    PowerGeneral =>
        /\ result = CombineRaised(Folded)
        /\ pc # "raised" => nops = 1 + 2 * Cardinality(Folded)
        /\ pc = "returned" => (Folded = Rows /\ ret = CombineRaised(Rows))

\* expand_power has returned a fraction: a cluster with a contribution
\* other than 1 was folded with exponent 0 and another with a negative one
C12_Witness ==
    /\ PowerReturned
    /\ \E c \in Rows : ExponentOf(c) = 0 /\ function[c] # One
    /\ \E c \in Rows : ExponentOf(c) < 0
    /\ ret[2] > 1

\* the tilde value expand_direct has stored for the cluster c
TildeOf(c) ==
    LET i == CHOOSE j \in 1..Len(subclusters[Len(c)]) : subclusters[Len(c)][j] = c
    IN  result_tilda[Len(c)][i]

\* the tilde rule: the raw contribution of c from which the tilde values, by
\* the same rule, of the clusters below c have been removed; no value when
\* one of them has none or their aggregate cannot be removed
RECURSIVE RuleTilde(_)
RECURSIVE RuleTildeAggregate(_)
RuleTilde(c) ==
    LET lower == RuleTildeAggregate(Below(c))
    IN  IF IsNumber(function[c]) /\ IsNumber(lower) /\ lower # Zero
        THEN TrueDiv(function[c], lower)
        ELSE NoValue
RuleTildeAggregate(us) ==
    IF us = {} THEN One
    ELSE LET u == CHOOSE x \in us : TRUE
             t == RuleTilde(u)
             rest == RuleTildeAggregate(us \ {u})
         IN  IF IsNumber(t) /\ IsNumber(rest) THEN Mul(t, rest) ELSE NoValue

\* C13: on the general path of expand_direct the tilde value stored for a
\* cluster v is its raw contribution with the aggregates of the tilde values
\* of the clusters of each strictly lower order inside v removed (nothing is
\* removed for an order with no cluster inside v); the tables hold one value
\* per processed cluster, and the running and the returned aggregate are the
\* combine of the stored tilde values.
C13_TildeRule ==
    DirectGeneral =>
        /\ \A c \in Folded : TildeOf(c) = RuleTilde(c)
        /\ \A k \in DOMAIN result_tilda :
              Len(result_tilda[k]) = Cardinality({c \in Folded : Len(c) = k})
        /\ result = RuleTildeAggregate(Folded)
        /\ pc = "returned" => (Folded = Rows /\ ret = RuleTildeAggregate(Rows))
        /\ (pc = "raised" /\ err.op = "removal_operator")
              => ~IsNumber(RuleTilde(err.at))

\* expand_direct has returned after removing, from one cluster, clusters of
\* two lower orders, with a third lower order that has no cluster inside it
C13_Witness ==
    /\ variant = "direct" /\ pc = "returned" /\ ~SingleCluster
    /\ \E c \in Rows :
          /\ TildeOf(c) # function[c]
          /\ Cardinality({Len(u) : u \in Below(c)}) = 2
    /\ \E c \in Rows : \E k \in DOMAIN subclusters :
          /\ k < Len(c) /\ subclusters[k] # <<>>
          /\ \A u \in Below(c) : Len(u) # k
          /\ Below(c) # {}

\* C14: while expand_power runs its general path, the callback is invoked
\* on a cluster v only when every cluster of every higher order has been
\* processed and holds its final exponent, and after clusters of orders not
\* lower than v's only (orders go from highest to lowest); the exponents of
\* the orders the lower orders read (revorders[:visited]) are not changed
\* by any later step.
C14_PowerOrderGating ==
    [][(PowerGeneral /\ variant' = "power" /\ ~Idle) =>
          /\ calls' # calls =>
                LET v == calls'[Len(calls')] IN
                /\ \A u \in Rows : Len(u) > Len(v) =>
                      (u \in Walked /\ ExponentOf(u) = RuleExponent(u))
                /\ \A u \in Walked : Len(u) >= Len(v)
                /\ \A k \in 1..visited : revorders[k] > Len(v)
          /\ \A k \in 1..visited : power'[revorders[k]] = power[revorders[k]]
      ]_vars

\* expand_power is in the middle of its third order, with an exponent of 0
\* among those of the two orders above
C14_Witness ==
    /\ PowerGeneral /\ pc = "p_for_index"
    /\ visited = 2 /\ index = 1
    /\ \E u \in Walked : Len(u) > revorders[ordpos] /\ ExponentOf(u) = 0

\* C15: while expand_direct runs its general path, the callback is invoked
\* on a cluster v only when the tilde value of every cluster of every
\* strictly lower order is stored, and after clusters of orders not higher
\* than v's only (orders go from lowest to highest); the orders whose tilde
\* values are read for v (orders[:visited]) are all strictly lower than v's
\* own, their tables are not changed by any later step, and the table of
\* the running order only grows at its end.
C15_DirectOrderGating ==
    [][(DirectGeneral /\ variant' = "direct" /\ ~Idle) =>
          /\ calls' # calls =>
                LET v == calls'[Len(calls')] IN
                /\ \A u \in Rows : Len(u) < Len(v) =>
                      /\ u \in Walked
                      /\ Len(result_tilda[Len(u)]) = Len(subclusters[Len(u)])
                /\ \A u \in Walked : Len(u) <= Len(v)
                /\ \A k \in 1..visited : orders[k] < Len(v)
          /\ \A k \in 1..visited : result_tilda'[orders[k]] = result_tilda[orders[k]]
          /\ \A k \in DOMAIN result_tilda :
                \/ result_tilda'[k] = result_tilda[k]
                \/ /\ k = orders[ordpos]
                   /\ Len(result_tilda'[k]) = Len(result_tilda[k]) + 1
                   /\ Prefix(result_tilda'[k], Len(result_tilda[k])) = result_tilda[k]
      ]_vars

\* expand_direct is in the middle of its third order, with a corrected
\* value among those of the two orders below
C15_Witness ==
    /\ DirectGeneral /\ pc = "d_for_index"
    /\ visited = 2 /\ index = 1
    /\ \E u \in Walked : Len(u) < orders[ordpos] /\ TildeOf(u) # function[u]

\* C16: the callback is never invoked twice on a cluster in one call, and a
\* call of either variant that returns has invoked it on every row of the
\* cluster set and on nothing else: as many invocations as there are rows
\* over all orders, whatever exponent expand_power gave the cluster.
C16_OneCallPerCluster ==
    variant # "none" =>
        /\ Cardinality(Walked) = Len(calls)
        /\ Walked \subseteq Rows
        /\ pc = "returned" =>
              /\ Walked = Rows
              /\ Len(calls) = Len(ProcessingOrder)

\* expand_power has returned after invoking the callback on three clusters
\* or more, one of exponent 0, and expand_direct has returned too
C16_Witness ==
    /\ PowerReturned
    /\ Len(calls) >= 3
    /\ \E c \in Rows : ExponentOf(c) = 0
    /\ last["direct"].kind = "value"

\* what the general path of each variant computes for the only cluster c of
\* a set: seed, exponent with no higher order (tilde with no lower order),
\* raise, combine
GeneralPowerOne(c) ==
    Mul(SeedPower, IPow(function[c], Exponent(Ones(1)[1], c, 0)))
GeneralDirectOne(c) ==
    Mul(SeedDirect, RemoveLower(function[c], c, 0))

\* C17: on a cluster set of one order holding one cluster, each variant
\* returns the value its general path computes for that set (and raises
\* when the callback does).
C17_FastPathAgrees ==
    (SingleCluster /\ Ended) =>
        IF function[TheCluster] = RAISES
        THEN pc = "raised"
        ELSE /\ pc = "returned"
             /\ variant = "power" => ret = GeneralPowerOne(TheCluster)
             /\ variant = "direct" => ret = GeneralDirectOne(TheCluster)

\* both variants have returned 1/2 on a single cluster
C17_Witness ==
    /\ SingleCluster /\ variant = "power" /\ pc = "returned"
    /\ ret = <<1, 2>>
    /\ last["direct"] = [kind |-> "value", val |-> GeneralDirectOne(TheCluster)]

\* C18: a call on a cluster set whose rows were reordered within one order
\* returns as the call of the same variant before the reordering did, with
\* the same aggregate, and assigns to each cluster the same exponent
\* (expand_power) or tilde value (expand_direct).
C18_RowOrderIndependence ==
    (prior.variant = variant /\ Ended) =>
        /\ pc = "returned"
        /\ ret = prior.ret
        /\ Assigned = prior.each

\* expand_power has returned again, with a negative exponent among those it
\* assigned, on reordered rows
C18_Witness ==
    /\ prior.variant = "power" /\ PowerReturned
    /\ subclusters # DictOf(Rows)
    /\ \E c \in Rows : ExponentOf(c) < 0
    /\ ret # One

\* C19: no step of an expand_direct call clears the hook or takes anything
\* out of it: its content changes only when the callback runs, which may add
\* to it; the hook is cleared only by steps of expand_power; and an
\* expand_direct call ends as the expand_direct call before it on the same
\* cluster set and callback did, whatever was called in between.
C19_DirectLeavesHookAlone ==
    [][/\ variant' = "direct" =>
             /\ nclear' = 0
             /\ smc' # smc => (calls' # calls /\ smc \subseteq smc')
       /\ nclear' > nclear => (variant = "power" /\ variant' = "power")
       /\ (variant' = "direct" /\ ~Idle /\ pc' \in {"returned", "raised"}
              /\ last["direct"].kind # "none")
             => last'["direct"] = last["direct"]
      ]_vars

\* expand_direct has returned from its general path after an expand_power
\* call on the same input had cleared the hook: the hook holds what the
\* callback put into it
C19_Witness ==
    /\ DirectGeneral /\ pc = "returned"
    /\ last["power"].kind = "value"
    /\ smc = SmcKeys /\ nclear = 0
    /\ Len(calls) >= 2

\* C20: reading alpha or beta returns the value other than None most
\* recently assigned to it since the last generate_states (the normalized
\* vector, or the index); and once a vector is assigned, no index is held.
C20_ReadsLastAssigned ==
    /\ (got.op = "get" /\ assigned[got.name] # None)
          => got.val = assigned[got.name]
    /\ (got.op = "set" /\ ~got.raised /\ assigned[got.name].kind = "array")
          => IndexOf(got.name) = None

\* C21: when expand_power returns from its general path, for every cluster
\* v of the set the exponent of v and the exponents of the clusters of
\* strictly higher order that contain v sum to exactly 1; a cluster inside
\* no cluster of higher order has exponent exactly 1.
C21_ExponentSum ==
    PowerReturned =>
        \A v \in Rows :
            /\ ExponentOf(v) + HeldExponentSum(Above(v)) = 1
            /\ Above(v) = {} => ExponentOf(v) = 1

\* expand_power has returned with a cluster inside three clusters or more,
\* of two higher orders, whose exponents are not all 1, next to a cluster
\* that lies inside none
C21_Witness ==
    /\ PowerReturned
    /\ \E v \in Rows :
          /\ Cardinality(Above(v)) >= 3
          /\ Cardinality({Len(u) : u \in Above(v)}) = 2
          /\ \E u \in Above(v) : ExponentOf(u) # 1
    /\ \E v \in Rows : Above(v) = {} /\ Len(v) < 3 /\ ExponentOf(v) = 1

\* the cluster set has no cluster: no order at all, or only orders whose
\* index table has no row
NoCluster == \A k \in DOMAIN subclusters : subclusters[k] = <<>>

\* C22: on a cluster set with no order, or whose every order has an index
\* table with no row, either variant returns the identity of combine
\* without invoking the callback, and expand_power has cleared the hook
\* once when it returns.
C22_EmptyInput ==
    (NoCluster /\ Ended) =>
        /\ pc = "returned"
        /\ ret = One
        /\ calls = <<>>
        /\ variant = "power" => (nclear = 1 /\ smc = {})

\* expand_power has returned 1 on two orders with empty tables, after
\* expand_direct returned 1 on them
C22_Witness ==
    /\ variant = "power" /\ pc = "returned"
    /\ NoCluster /\ Cardinality(DOMAIN subclusters) = 2
    /\ ret = One /\ calls = <<>> /\ nclear = 1
    /\ last["direct"] = [kind |-> "value", val |-> One]

\* the Pauli matrices of the states alpha and beta as they are now
SigmaNow == Pauli(_get_state("alpha").v, _get_state("beta").v)

\* C23: the Pauli matrices a read of Center.sigma returns are those built
\* from alpha and beta as they are at the read, and a cached sigma is never
\* out of date: whatever changes alpha or beta leaves no matrices built from
\* the states before.
C23_SigmaCoherent ==
    /\ (got.op = "sigma" /\ ~got.raised) => got.sigma = SigmaNow
    /\ _sigma # NoSigma => _sigma = SigmaNow

=============================================================================
